---------------------------- MODULE Spec2Model ----------------------------
(***************************************************************************)
(* Model of ros/catkin_ws/src/odometry/src/reference_odometry.py: the      *)
(* "ground truth" odometry node.  Two threads share the fields of one      *)
(* OdometryPublisher object: the subscriber thread runs callback() for     *)
(* each gazebo/model_states message, the main thread runs the polling     *)
(* loop of main().  Each action holds one read or write of a field the    *)
(* other thread uses, with the thread-local statements that follow it.    *)
(*                                                                         *)
(* Reading conventions.  The file names things it never binds; the model  *)
(* reads each such name as the binding the statement evidently refers to: *)
(*   - `ux_idx` (163, 164) is `aux_idx` (161); `this` (154) is `self`;    *)
(*   - `self.model_state.pose.position` (125, 126) is the position and    *)
(*     orientation of the stored Pose (the callback stores data.pose[i],  *)
(*     a geometry_msgs/Pose, which 136 and 152 use as such);              *)
(*   - PoseStamped() at 121 is the stamped transform whose fields         *)
(*     child_frame_id and transform 124-126 assign;                       *)
(*   - vectors and quaternions are component tuples where                 *)
(*     tf.transformations is handed message objects (79, 80).             *)
(* Everything else is as written: which object is passed where, the type  *)
(* tests of pose2np, the order of reads and writes, what is published.    *)
(*                                                                         *)
(* Numbers are integers.  Orientations are unit quaternions with integer  *)
(* components (identity and half turns) and the zero quaternion, on which *)
(* the floating-point formulas of tf.transformations are exact.           *)
(***************************************************************************)
EXTENDS Integers, Sequences, FiniteSets, TLC

\* Bounds of the model: batches delivered under Spec, batches delivered under
\* SpecValues, odometry records published.
MaxSamples == 3
MaxValueSamples == 2
MaxRecords == 2

\* Bound of the arguments the functions are called with: the largest
\* coordinate of a position or a vector.
MaxCoord == 1

None == [type |-> "NoneType"]

----------------------------------------------------------------------------
(* tf.transformations, as called from the source *)

identity4 ==
  << <<1, 0, 0, 0>>, <<0, 1, 0, 0>>, <<0, 0, 1, 0>>, <<0, 0, 0, 1>> >>

\* quaternion_matrix(q), q = (x, y, z, w): a zero-norm quaternion gives the
\* identity matrix (nq < _EPS); otherwise q is scaled by sqrt(2/nq) and the
\* matrix is read off the outer product.
quaternion_matrix(q) ==
  LET nq == q[1]*q[1] + q[2]*q[2] + q[3]*q[3] + q[4]*q[4]
      o(i, j) == (2 * q[i] * q[j]) \div nq
  IN  IF nq = 0 THEN identity4
      ELSE << <<1 - o(2,2) - o(3,3), o(1,2) - o(3,4),     o(1,3) + o(2,4),     0>>,
              <<o(1,2) + o(3,4),     1 - o(1,1) - o(3,3), o(2,3) - o(1,4),     0>>,
              <<o(1,3) - o(2,4),     o(2,3) + o(1,4),     1 - o(1,1) - o(2,2), 0>>,
              <<0, 0, 0, 1>> >>

ISqrt(n) == CHOOSE r \in 0..n : r * r = n

\* quaternion_from_matrix(M): the branch on the trace, then the scaling by
\* 0.5 / sqrt(t * M[3,3]).
quaternion_from_matrix(M) ==
  LET tr4 == M[1][1] + M[2][2] + M[3][3] + M[4][4]
      i == IF M[3][3] > (IF M[2][2] > M[1][1] THEN M[2][2] ELSE M[1][1]) THEN 3
           ELSE IF M[2][2] > M[1][1] THEN 2 ELSE 1
      j == (i % 3) + 1
      k == (j % 3) + 1
      t == IF tr4 > M[4][4] THEN tr4
           ELSE M[i][i] - (M[j][j] + M[k][k]) + M[4][4]
      raw == IF tr4 > M[4][4]
             THEN << M[3][2] - M[2][3], M[1][3] - M[3][1], M[2][1] - M[1][2], t >>
             ELSE [n \in 1..4 |->
                     IF n = i THEN t
                     ELSE IF n = j THEN M[i][j] + M[j][i]
                     ELSE IF n = k THEN M[k][i] + M[i][k]
                     ELSE M[k][j] - M[j][k]]
      d == 2 * ISqrt(t * M[4][4])
  IN  << raw[1] \div d, raw[2] \div d, raw[3] \div d, raw[4] \div d >>

\* quaternion_multiply(q1, q0), components (x, y, z, w).
quaternion_multiply(q1, q0) ==
  LET x0 == q0[1] y0 == q0[2] z0 == q0[3] w0 == q0[4]
      x1 == q1[1] y1 == q1[2] z1 == q1[3] w1 == q1[4]
  IN  <<  x1*w0 + y1*z0 - z1*y0 + w1*x0,
         -x1*z0 + y1*w0 + z1*x0 + w1*y0,
          x1*y0 - y1*x0 + z1*w0 + w1*z0,
         -x1*x0 - y1*y0 - z1*z0 + w1*w0 >>

quaternion_conjugate(q) == << -q[1], -q[2], -q[3], q[4] >>

\* np.dot of two 4x4 matrices.
np_dot(A, B) ==
  [i \in 1..4 |-> [j \in 1..4 |->
     A[i][1]*B[1][j] + A[i][2]*B[2][j] + A[i][3]*B[3][j] + A[i][4]*B[4][j]]]

\* Faulty variant of np_linalg_inv: the rotation is inverted, the translation is
\* only negated and not rotated back.
np_linalg_inv_translation_negated(A) ==
  [i \in 1..4 |-> [j \in 1..4 |->
    IF i = 4 THEN (IF j = 4 THEN 1 ELSE 0)
    ELSE IF j = 4 THEN -A[i][4] ELSE A[j][i]]]

\* np.linalg.inv on a rigid transform [[R, t], [0, 1]] with R orthonormal,
\* which is every matrix pose2np builds here: [[R^T, -R^T t], [0, 1]].
np_linalg_inv(A) ==
  LET Rt(i, j) == A[j][i]
      ti(i) == -(Rt(i,1)*A[1][4] + Rt(i,2)*A[2][4] + Rt(i,3)*A[3][4])
  IN  [i \in 1..4 |-> [j \in 1..4 |->
        IF i = 4 THEN (IF j = 4 THEN 1 ELSE 0)
        ELSE IF j = 4 THEN ti(i) ELSE Rt(i, j)]]

----------------------------------------------------------------------------
(* Message objects *)

Pose(position, orientation) ==
  [type |-> "Pose", position |-> position, orientation |-> orientation]

Transform(translation, rotation) ==
  [type |-> "Transform", translation |-> translation, rotation |-> rotation]

TransformStamped(frame_id, child_frame_id, translation, rotation) ==
  [type |-> "TransformStamped", frame_id |-> frame_id,
   child_frame_id |-> child_frame_id,
   transform |-> Transform(translation, rotation)]

Twist(linear, angular) == [type |-> "Twist", linear |-> linear, angular |-> angular]

----------------------------------------------------------------------------
(* The module's functions *)

\* pose2np(p): the 4x4 matrix of a Pose or a Transform; an object of any other
\* type passes both isinstance tests and the identity is returned.
pose2np(p) ==
  IF p.type = "Pose"
  THEN LET qmat == quaternion_matrix(p.orientation)
       IN  [i \in 1..4 |-> [j \in 1..4 |->
             IF i = 4 THEN identity4[i][j]
             ELSE IF j = 4 THEN p.position[i] ELSE qmat[i][j]]]
  ELSE IF p.type = "Transform"
  THEN LET qmat == quaternion_matrix(p.rotation)
       IN  [i \in 1..4 |-> [j \in 1..4 |->
             IF i < 4 /\ j = 4 THEN p.translation[i] ELSE qmat[i][j]]]
  ELSE identity4

\* np2trf(a, t): fills a Transform from a matrix.
np2trf(a) ==
  Transform(<<a[1][4], a[2][4], a[3][4]>>, quaternion_from_matrix(a))

\* transform_between_poses(pb, pf): inv(pose2np(pb)) * pose2np(pf).
transform_between_poses(pb, pf) ==
  LET g_sb == pose2np(pb)
      g_sf == pose2np(pf)
  IN  np2trf(np_dot(np_linalg_inv(g_sb), g_sf))

\* Faulty variant of transform_vector: the flag is not looked at, the forward
\* sandwich is taken either way.
transform_vector_forward_only(t, v1, inverse) ==
  LET q1 == t.rotation
      q2 == <<v1[1], v1[2], v1[3], 0>>
      r == quaternion_multiply(quaternion_multiply(q1, q2),
                               quaternion_conjugate(q1))
  IN  <<r[1], r[2], r[3]>>

\* transform_vector(t, v1, inverse): the quaternion sandwich, first three
\* components.
transform_vector(t, v1, inverse) ==
  LET q1 == t.rotation
      q2 == <<v1[1], v1[2], v1[3], 0>>
      r == IF inverse
           THEN quaternion_multiply(quaternion_conjugate(q1),
                                    quaternion_multiply(q2, q1))
           ELSE quaternion_multiply(quaternion_multiply(q1, q2),
                                    quaternion_conjugate(q1))
  IN  <<r[1], r[2], r[3]>>

----------------------------------------------------------------------------
(* Inputs: the gazebo/model_states batches the simulator can deliver *)

ident_q == <<0, 0, 0, 1>>
half_turn_z == <<0, 0, 1, 0>>
zero_q == <<0, 0, 0, 0>>

ground_pose == Pose(<<0, 0, 0>>, ident_q)
ground_twist == Twist(<<0, 0, 0>>, <<0, 0, 0>>)

\* The states of the puzzlebot a batch may carry: pose and world-frame twist.
\* Two states with the identity orientation ...
StraightStates ==
  { [pose |-> Pose(<<5, 0, 0>>, ident_q),     twist |-> Twist(<<0, 1, 0>>, <<0, 0, 1>>)],
    [pose |-> Pose(<<5, 1, 0>>, ident_q),     twist |-> Twist(<<0, 1, 0>>, <<1, 0, 2>>)] }

\* ... and with them a half turn about the vertical axis and a zero-norm
\* orientation.
BotStates ==
  StraightStates \cup
  { [pose |-> Pose(<<6, 1, 0>>, half_turn_z), twist |-> Twist(<<1, 0, 0>>, <<0, 1, 3>>)],
    [pose |-> Pose(<<5, 0, 0>>, zero_q),      twist |-> Twist(<<1, 0, 0>>, <<0, 0, 1>>)] }

\* A ModelStates message: parallel lists name, pose, twist.
ModelStates(name, pose, twist) == [name |-> name, pose |-> pose, twist |-> twist]

\* The batches over a set of puzzlebot states: the ground plane and the
\* puzzlebot in each state, and the ground plane alone.
Batches(states) ==
  { ModelStates(<<"ground_plane", "puzzlebot">>,
                <<ground_pose, b.pose>>, <<ground_twist, b.twist>>) : b \in states }
  \cup { ModelStates(<<"ground_plane">>, <<ground_pose>>, <<ground_twist>>) }

\* Faulty variant of list_index: a list without x gives its first position instead
\* of the error.
list_index_or_first(l, x) ==
  IF \E i \in 1..Len(l) : l[i] = x
  THEN CHOOSE i \in 1..Len(l) : l[i] = x /\ \A j \in 1..(i-1) : l[j] # x
  ELSE 1

\* list.index(x): the first position of x, 1-based; 0 stands for the
\* ValueError raised when x is not in the list.
list_index(l, x) ==
  IF \E i \in 1..Len(l) : l[i] = x
  THEN CHOOSE i \in 1..Len(l) : l[i] = x /\ \A j \in 1..(i-1) : l[j] # x
  ELSE 0

----------------------------------------------------------------------------
(* State *)

VARIABLES
  model_state,    \* self.model_state: None or the last stored Pose
  model_twist,    \* self.model_twist: None or the last stored Twist
  initial_state,  \* self.initial_state: None or the latched stamped transform
  pc,             \* main(): the line the loop is at, or "crashed"
  t,              \* main(): local t
  vs,             \* main(): local vs
  vb,             \* main(): local vb
  cb_pc,          \* callback(): "idle" or the line it is at
  data,           \* callback(): its argument
  aux_idx,        \* callback(): local aux_idx
  static_tf,      \* what brStatic.sendTransform was called with, in order
  tf,             \* what br.sendTransform was last called with
  odom_pub,       \* what odom_pub.publish was called with, in order
  delivered,      \* history: the batches delivered to callback, in order
  from,           \* history: which delivery each stored or local value is from
  ref_src,        \* history: which deliveries the latched reference is from
  odom_src,       \* history: which deliveries each published record is from
  args,           \* a call of one of the module's functions on its own: the arguments
  rets            \* ... and what the calls made so far returned, in order

vars == << model_state, model_twist, initial_state, pc, t, vs, vb, cb_pc, data,
           aux_idx, static_tf, tf, odom_pub, delivered, from, ref_src, odom_src,
           args, rets >>

node == << model_state, model_twist, initial_state, pc, t, vs, vb, cb_pc, data,
           aux_idx, static_tf, tf, odom_pub, delivered, from, ref_src, odom_src >>
calls == << args, rets >>

shared == << model_state, model_twist, initial_state >>
locals == << t, vs, vb >>
outputs == << static_tf, tf, odom_pub, odom_src >>
cbvars == << cb_pc, data, aux_idx >>

\* `from` records, for the stored pose, the stored twist and each local read
\* of the current iteration, the index in `delivered` of the batch it is from
\* (0: from none).
NoFrom == [state |-> 0, twist |-> 0, t_pos |-> 0, pose |-> 0,
           had_ref |-> FALSE, lin |-> 0, ori |-> 0]

\* __init__ (104-106), before main() and before any message.
Constructed ==
  /\ model_state = None
  /\ model_twist = None
  /\ initial_state = None
  /\ pc = "L118"
  /\ t = None
  /\ vs = None
  /\ vb = None
  /\ cb_pc = "idle"
  /\ data = None
  /\ aux_idx = 0
  /\ static_tf = << >>
  /\ tf = None
  /\ odom_pub = << >>
  /\ delivered = << >>
  /\ from = NoFrom
  /\ ref_src = None
  /\ odom_src = << >>

\* The node: constructed, and no function called on its own.
Init ==
  /\ Constructed
  /\ args = None
  /\ rets = << >>

----------------------------------------------------------------------------
(* callback(self, data): the subscriber thread *)

\* rospy calls callback with the next message, one call at a time.
\* 161: aux_idx = data.name.index('puzzlebot').  The ValueError of a batch
\* without the body ends the call (rospy reports it); nothing was written.
callback_L161(batches, max) ==
  /\ cb_pc = "idle"
  /\ pc # "crashed"
  /\ Len(delivered) < max
  /\ \E b \in batches :
       /\ delivered' = Append(delivered, b)
       /\ LET i == list_index(b.name, "puzzlebot")
          IN  IF i = 0
              THEN UNCHANGED << cb_pc, data, aux_idx >>
              ELSE /\ cb_pc' = "L163"
                   /\ data' = b
                   /\ aux_idx' = i
  /\ UNCHANGED calls
  /\ UNCHANGED << shared, pc, locals, outputs, from, ref_src >>

\* Faulty variant of callback_L163: a pose once stored is kept, the new one is lost.
callback_L163_keep_oldest ==
  /\ cb_pc = "L163"
  /\ pc # "crashed"
  /\ model_state' = IF model_state = None THEN data.pose[aux_idx] ELSE model_state
  /\ from' = [from EXCEPT !.state = Len(delivered)]
  /\ cb_pc' = "L164"
  /\ UNCHANGED calls
  /\ UNCHANGED << model_twist, initial_state, pc, locals, data, aux_idx,
                  outputs, delivered, ref_src >>

\* 163: self.model_state = data.pose[aux_idx]
callback_L163 ==
  /\ cb_pc = "L163"
  /\ pc # "crashed"
  /\ model_state' = data.pose[aux_idx]
  /\ from' = [from EXCEPT !.state = Len(delivered)]
  /\ cb_pc' = "L164"
  /\ UNCHANGED calls
  /\ UNCHANGED << model_twist, initial_state, pc, locals, data, aux_idx,
                  outputs, delivered, ref_src >>

\* 164: self.model_twist = data.twist[aux_idx]
callback_L164 ==
  /\ cb_pc = "L164"
  /\ pc # "crashed"
  /\ model_twist' = data.twist[aux_idx]
  /\ from' = [from EXCEPT !.twist = Len(delivered)]
  /\ cb_pc' = "idle"
  /\ data' = None
  /\ aux_idx' = 0
  /\ UNCHANGED calls
  /\ UNCHANGED << model_state, initial_state, pc, locals, outputs, delivered,
                  ref_src >>

----------------------------------------------------------------------------
(* main(self): the polling loop of the main thread *)

\* Faulty variant of needs_reference: the test of initial_state is missing, so a
\* reference is latched in every iteration that sees a pose.
needs_reference_always == TRUE

\* 118: if self.initial_state is None
needs_reference == initial_state = None

\* 117-124: the loop test (the node is up); if self.initial_state is None: if
\* self.model_state is not None: t = <stamped transform>, frame_id "world",
\* child_frame_id "odom_true".
main_L118 ==
  /\ pc = "L118"
  /\ Len(odom_pub) < MaxRecords
  /\ IF needs_reference /\ model_state # None
     THEN /\ t' = TransformStamped("world", "odom_true", None, None)
          /\ pc' = "L125"
     ELSE /\ t' = t
          /\ pc' = "L129"
  /\ UNCHANGED calls
  /\ UNCHANGED << shared, vs, vb, cbvars, outputs, delivered, from, ref_src >>

\* 125: t.transform.translation = <position of self.model_state>
main_L125 ==
  /\ pc = "L125"
  /\ t' = [t EXCEPT !.transform.translation = model_state.position]
  /\ from' = [from EXCEPT !.t_pos = from.state]
  /\ pc' = "L126"
  /\ UNCHANGED calls
  /\ UNCHANGED << shared, vs, vb, cbvars, outputs, delivered, ref_src >>

\* 126-128: t.transform.rotation = <orientation of self.model_state>;
\* self.initial_state = t; self.brStatic.sendTransform(t)
main_L126 ==
  /\ pc = "L126"
  /\ t' = [t EXCEPT !.transform.rotation = model_state.orientation]
  /\ initial_state' = t'
  /\ static_tf' = Append(static_tf, t')
  /\ ref_src' = [translation |-> from.t_pos, rotation |-> from.state,
                  delivered |-> Len(delivered)]
  /\ pc' = "L129"
  /\ UNCHANGED calls
  /\ UNCHANGED << model_state, model_twist, vs, vb, cbvars, tf, odom_pub,
                  odom_src, delivered, from >>

\* 129: if self.model_state is not None; otherwise the next iteration.
main_L129 ==
  /\ pc = "L129"
  /\ pc' = IF model_state # None THEN "L136" ELSE "L118"
  /\ UNCHANGED calls
  /\ UNCHANGED << shared, locals, cbvars, outputs, delivered, from, ref_src >>

\* 131-140: t = TransformStamped(), frame_id "odom_true", child_frame_id
\* "base_link"; tt = transform_between_poses(self.initial_state,
\* self.model_state); t.transform = tt; self.br.sendTransform(t)
main_L136 ==
  /\ pc = "L136"
  /\ LET tt == transform_between_poses(initial_state, model_state)
     IN  /\ t' = TransformStamped("odom_true", "base_link", tt.translation, tt.rotation)
         /\ tf' = t'
  /\ from' = [from EXCEPT !.pose = from.state, !.had_ref = (initial_state # None)]
  /\ pc' = "L150"
  /\ UNCHANGED calls
  /\ UNCHANGED << shared, vs, vb, cbvars, static_tf, odom_pub, odom_src,
                  delivered, ref_src >>

\* 150: vs = self.model_twist.linear.  With model_twist still None this is an
\* AttributeError that nothing catches: main() ends, and the process with it.
main_L150 ==
  /\ pc = "L150"
  /\ IF model_twist = None
     THEN /\ pc' = "crashed"
          /\ UNCHANGED << vs, from >>
     ELSE /\ vs' = model_twist.linear
          /\ from' = [from EXCEPT !.lin = from.twist]
          /\ pc' = "L152"
  /\ UNCHANGED calls
  /\ UNCHANGED << shared, t, vb, cbvars, outputs, delivered, ref_src >>

\* 151-153: tr = Transform(); tr.rotation = <orientation of self.model_state>;
\* vb = transform_vector(tr, vs, inverse=True)
main_L152 ==
  /\ pc = "L152"
  /\ LET tr == Transform(<<0, 0, 0>>, model_state.orientation)
     IN  vb' = transform_vector(tr, vs, TRUE)
  /\ from' = [from EXCEPT !.ori = from.state]
  /\ pc' = "L154"
  /\ UNCHANGED calls
  /\ UNCHANGED << shared, t, vs, cbvars, outputs, delivered, ref_src >>

\* Faulty variant of angular_out: the index is off by one.
angular_out_y(angular) == <<0, 0, angular[2]>>

\* 154: Vector3(0, 0, self.model_twist.angular[2])
angular_out(angular) == <<0, 0, angular[3]>>

\* 143-157: odom = Odometry(), frame_id "odom_true", child_frame_id
\* "base_link", pose = Pose(t.transform.translation, t.transform.rotation),
\* twist = Twist(vb, <angular>); self.odom_pub.publish(odom); next iteration.
\* The locals are dead here (each is assigned again before it is read), so
\* the model clears them.
main_L154 ==
  /\ pc = "L154"
  /\ odom_pub' = Append(odom_pub,
       [frame_id |-> "odom_true", child_frame_id |-> "base_link",
        pose |-> Pose(t.transform.translation, t.transform.rotation),
        twist |-> Twist(vb, angular_out(model_twist.angular))])
  /\ odom_src' = Append(odom_src,
       [pose |-> from.pose, had_ref |-> from.had_ref, lin |-> from.lin,
        ori |-> from.ori, ang |-> from.twist])
  /\ pc' = "L118"
  /\ t' = None
  /\ vs' = None
  /\ vb' = None
  /\ from' = [NoFrom EXCEPT !.state = from.state, !.twist = from.twist]
  /\ UNCHANGED calls
  /\ UNCHANGED << shared, cbvars, static_tf, tf, delivered, ref_src >>

----------------------------------------------------------------------------
\* The batches the simulator sends: the puzzlebot with the identity
\* orientation ...
DeliverStraight ==
  callback_L161({ b \in Batches(StraightStates) : Len(b.name) = 2 }, MaxSamples)

\* ... or any batch, the one without the puzzlebot among them.
DeliverAny == callback_L161(Batches(BotStates), MaxValueSamples)

callback ==
  \/ callback_L163
  \/ callback_L164

main ==
  \/ main_L118
  \/ main_L125
  \/ main_L126
  \/ main_L129
  \/ main_L136
  \/ main_L150
  \/ main_L152
  \/ main_L154

\* Up to MaxSamples batches that carry the puzzlebot with the identity
\* orientation.
Next == DeliverStraight \/ callback \/ main

Spec == Init /\ [][Next]_vars

\* Up to MaxValueSamples batches of any kind.
NextValues == DeliverAny \/ callback \/ main

SpecValues == Init /\ [][NextValues]_vars

----------------------------------------------------------------------------
(* The module's functions called on their own *)

Coords == 0..MaxCoord
SignedCoords == (-MaxCoord)..MaxCoord

Positions == { <<x, y, z>> : x \in Coords, y \in Coords, z \in Coords }
Vectors == { <<x, y, z>> : x \in SignedCoords, y \in SignedCoords, z \in SignedCoords }

\* The unit quaternions with integer components: the identity, the half
\* turns about the three axes, and their negatives.
UnitQuaternions ==
  { <<0, 0, 0, 1>>, <<0, 0, 0, -1>>, <<1, 0, 0, 0>>, <<-1, 0, 0, 0>>,
    <<0, 1, 0, 0>>, <<0, -1, 0, 0>>, <<0, 0, 1, 0>>, <<0, 0, -1, 0>> }

\* Quaternions of other norms: a quarter turn about z, about x and back about
\* y, and a third of a turn about the diagonal, none of them normalised.
OtherQuaternions ==
  { <<0, 0, 1, 1>>, <<1, 0, 0, 1>>, <<0, -1, 0, 1>>, <<1, 1, 1, 1>> }

\* The Pose and Transform objects transform_between_poses is called with.
Poses == { Pose(p, q) : p \in Positions, q \in UnitQuaternions \cup {zero_q} }
Transforms == { Transform(p, q) : p \in Positions, q \in UnitQuaternions \cup {zero_q} }

\* The transforms transform_vector is called with: only the rotation is read.
Rotations ==
  { Transform(p, q) : p \in {<<0, 0, 0>>, <<MaxCoord, 0, 0>>},
                      q \in UnitQuaternions \cup OtherQuaternions \cup {zero_q} }

\* The calls: transform_between_poses(pb, pf), and transform_vector(t, v1)
\* followed by transform_vector(t, <what it returned>, inverse=True).
Calls ==
  [fn : {"transform_between_poses"}, pb : Poses \cup Transforms, pf : Poses]
  \cup [fn : {"transform_vector"}, t : Rotations, v1 : Vectors]

\* The node is constructed and stays as it is; one call is picked.
InitFunctions ==
  /\ Constructed
  /\ args \in Calls
  /\ rets = << >>

\* 15-33: transform_between_poses(pb, pf)
call_transform_between_poses ==
  /\ args.fn = "transform_between_poses"
  /\ rets = << >>
  /\ rets' = << transform_between_poses(args.pb, args.pf) >>
  /\ UNCHANGED << node, args >>

\* 73-92: transform_vector(t, v1), inverse left at its default False
call_transform_vector ==
  /\ args.fn = "transform_vector"
  /\ rets = << >>
  /\ rets' = << transform_vector(args.t, args.v1, FALSE) >>
  /\ UNCHANGED << node, args >>

\* 73-92: transform_vector(t, <the vector returned>, inverse=True)
call_transform_vector_inverse ==
  /\ args.fn = "transform_vector"
  /\ Len(rets) = 1
  /\ rets' = Append(rets, transform_vector(args.t, rets[1], TRUE))
  /\ UNCHANGED << node, args >>

NextFunctions ==
  \/ call_transform_between_poses
  \/ call_transform_vector
  \/ call_transform_vector_inverse

SpecFunctions == InitFunctions /\ [][NextFunctions]_vars

----------------------------------------------------------------------------
(* What the history says about the batches delivered *)

HasBody(b) == \E n \in 1..Len(b.name) : b.name[n] = "puzzlebot"

BodyAt(b) == CHOOSE n \in 1..Len(b.name) : b.name[n] = "puzzlebot"

\* The deliveries that carry the puzzlebot: the samples.
Samples == { i \in 1..Len(delivered) : HasBody(delivered[i]) }

SamplePose(i) == delivered[i].pose[BodyAt(delivered[i])]

SampleTwist(i) == delivered[i].twist[BodyAt(delivered[i])]

FirstSample == CHOOSE i \in Samples : \A j \in Samples : i <= j

\* The reference as a Pose: what transform_between_poses' docstring calls pb.
ReferencePose ==
  Pose(initial_state.transform.translation, initial_state.transform.rotation)

Records == 1..Len(odom_pub)

----------------------------------------------------------------------------
(* C1 *)

\* In every state after the latch the reference is the translation and the
\* rotation it was latched with (read at 125 and 126 from delivered samples).
ReferenceIsAsLatched ==
  initial_state # None =>
    /\ ref_src.translation \in Samples /\ ref_src.rotation \in Samples
    /\ initial_state.transform.translation = SamplePose(ref_src.translation).position
    /\ initial_state.transform.rotation = SamplePose(ref_src.rotation).orientation

\* C1: once the reference is latched (initial_state set) no step changes it,
\* whatever samples arrive, and it is never unset again; in every state after
\* the latch it equals the pose it was latched with.
C1_ReferenceNeverChanges ==
  /\ []ReferenceIsAsLatched
  /\ [][initial_state # None =>
          initial_state' = initial_state /\ ref_src' = ref_src]_vars

\* A reference was latched, a later sample with another position was stored
\* after it, and a record was published from that later sample.
C1_Witness ==
  /\ initial_state # None
  /\ from.state > ref_src.translation
  /\ from.state > ref_src.rotation
  /\ model_state.position # initial_state.transform.translation
  /\ \E k \in Records : odom_src[k].pose = from.state

----------------------------------------------------------------------------
(* C2 *)

\* inverse(reference) composed with the pose of sample i.
RelativeToReference(i) ==
  np2trf(np_dot(np_linalg_inv(pose2np(ReferencePose)), pose2np(SamplePose(i))))

\* C2: every record computed while tracking (the reference was set when 136
\* ran) carries the pose inverse(reference) * current; with the reference at
\* (5,0,0) and the sample at (5,1,0), both of identity orientation, the
\* translation is (0,1,0).
C2_RelativePoseIsInverseReferenceTimesCurrent ==
  \A k \in Records :
    odom_src[k].had_ref =>
      /\ odom_pub[k].pose.position = RelativeToReference(odom_src[k].pose).translation
      /\ odom_pub[k].pose.orientation = RelativeToReference(odom_src[k].pose).rotation
      /\ ( /\ ReferencePose = Pose(<<5, 0, 0>>, ident_q)
           /\ SamplePose(odom_src[k].pose) = Pose(<<5, 1, 0>>, ident_q)
           => odom_pub[k].pose.position = <<0, 1, 0>> )

----------------------------------------------------------------------------
(* C3 *)

\* C3: whenever the loop is about to compute odometry (136), and for every
\* record published, the reference is set.
C3_NoOdometryBeforeReference ==
  /\ pc = "L136" => initial_state # None
  /\ \A k \in Records : odom_src[k].had_ref

----------------------------------------------------------------------------
(* C4 *)

\* C4: the static transform is broadcast at most once, with the latched
\* reference, and in a run in which a sample arrived exactly once: when main()
\* has ended, it has been broadcast.
C4_AnnouncedExactlyOnce ==
  /\ Len(static_tf) <= 1
  /\ Len(static_tf) = 1 => static_tf[1] = initial_state
  /\ (pc = "crashed" /\ Samples # {}) => Len(static_tf) = 1

----------------------------------------------------------------------------
(* C5 *)

\* C5: the latched reference is the pose of the first sample delivered.
C5_ReferenceIsFirstSample ==
  initial_state # None =>
    /\ initial_state.transform.translation = SamplePose(FirstSample).position
    /\ initial_state.transform.rotation = SamplePose(FirstSample).orientation

----------------------------------------------------------------------------
(* C6 *)

\* main() is still polling: it has not ended, and the model has not stopped it.
LoopRunning == pc # "crashed" /\ Len(odom_pub) < MaxRecords

\* Sample i was delivered after the latch and a later sample has replaced it
\* in model_state.
ReplacedAfterLatch(i) ==
  /\ initial_state # None
  /\ i > ref_src.delivered
  /\ from.state > i

HasRecord(i) == \E k \in Records : odom_src[k].pose = i

InArrivalOrder ==
  \A k, l \in Records : k < l => odom_src[k].pose <= odom_src[l].pose

\* C6 as claimed: every sample delivered after the latch has a record
\* computed from it (or is the one being processed) once the next sample has
\* taken its place, and the records are in arrival order.
C6_NoSampleDropped ==
  /\ \A i \in Samples :
       (LoopRunning /\ ReplacedAfterLatch(i)) => (HasRecord(i) \/ from.pose = i)
  /\ InArrivalOrder

\* The last sample whose pose the callback has stored (0: none yet).
LastStored ==
  LET done == { i \in Samples : i < Len(delivered) \/ cb_pc \in {"L164", "idle"} }
  IN  IF done = {} THEN 0 ELSE CHOOSE i \in done : \A j \in done : j <= i

\* Nothing is buffered: model_state is the pose of the last sample stored,
\* and whatever was there before is gone.
OnlyLatestIsKept ==
  /\ from.state = LastStored
  /\ model_state = (IF from.state = 0 THEN None ELSE SamplePose(from.state))

\* Every record's pose was read from one delivered sample.
RecordsAreOfSamples == \A k \in Records : odom_src[k].pose \in Samples

\* C6 as amended: nothing is buffered and only the latest sample is kept, so
\* a sample replaced before the loop reads it has no record; every record's
\* pose is computed from one delivered sample, and the records are in the
\* arrival order of those samples.
C6_LatestValueInArrivalOrder ==
  /\ OnlyLatestIsKept
  /\ RecordsAreOfSamples
  /\ InArrivalOrder

\* A sample delivered after the latch was replaced before the loop read it:
\* it has no record, and a record of a later sample has been published.
C6_Witness ==
  \E i \in Samples :
    /\ ReplacedAfterLatch(i)
    /\ ~HasRecord(i)
    /\ \E k \in Records : odom_src[k].pose > i /\ odom_src[k].had_ref

----------------------------------------------------------------------------
(* C7 *)

\* C7: no more records than samples delivered, and no sample published as
\* two records.
C7_OneRecordPerSample ==
  /\ Len(odom_pub) <= Cardinality(Samples)
  /\ \A k, l \in Records : k # l => odom_src[k].pose # odom_src[l].pose

----------------------------------------------------------------------------
(* C8 *)

\* The callback's step on a batch without the puzzlebot: the call is over
\* and neither a shared field nor an output has changed.
SkipsBatchWithoutBody ==
  (Len(delivered') > Len(delivered) /\ ~HasBody(delivered'[Len(delivered')]))
    => (cb_pc' = "idle" /\ UNCHANGED << shared, outputs >>)

\* What is stored is of the last sample, never of a batch without the body:
\* once the callback is over, pose and twist are those of the last batch that
\* carried the puzzlebot.
StoredIsLastSample ==
  /\ from.state \in Samples \cup {0}
  /\ from.twist \in Samples \cup {0}
  /\ model_state = (IF from.state = 0 THEN None ELSE SamplePose(from.state))
  /\ model_twist = (IF from.twist = 0 THEN None ELSE SampleTwist(from.twist))
  /\ cb_pc = "idle" => (from.state = LastStored /\ from.twist = LastStored)

NoRecordOfBatchWithoutBody ==
  \A k \in Records :
    /\ odom_src[k].pose \in Samples
    /\ odom_src[k].ori \in Samples
    /\ odom_src[k].lin \in Samples
    /\ odom_src[k].ang \in Samples

\* C8: a batch without 'puzzlebot' is skipped and processing goes on: stored
\* pose, stored twist and reference are left as they were, no record is of
\* that batch, and the next batch with the body is stored as usual.
C8_BatchWithoutBodySkipped ==
  /\ [](StoredIsLastSample /\ NoRecordOfBatchWithoutBody /\ ReferenceIsAsLatched)
  /\ [][SkipsBatchWithoutBody]_vars

\* A sample was stored and published, then a batch without the body was
\* delivered and skipped: what is stored is still the sample.
C8_Witness ==
  /\ Len(delivered) = 2
  /\ Samples = {1}
  /\ cb_pc = "idle"
  /\ model_state = SamplePose(1)
  /\ model_twist = SampleTwist(1)
  /\ \E k \in Records : odom_src[k].pose = 1 /\ odom_src[k].ang = 1

----------------------------------------------------------------------------
(* C9 *)

ZeroNorm(q) == q[1]*q[1] + q[2]*q[2] + q[3]*q[3] + q[4]*q[4] = 0

\* C9: a sample with a zero-norm orientation is rejected: no record is
\* computed from it, it is not latched as the reference, and main() goes on
\* to the next sample.
C9_ZeroQuaternionRejected ==
  /\ \A k \in Records :
       /\ ~ZeroNorm(SamplePose(odom_src[k].pose).orientation)
       /\ ~ZeroNorm(SamplePose(odom_src[k].ori).orientation)
  /\ initial_state # None => ~ZeroNorm(initial_state.transform.rotation)

----------------------------------------------------------------------------
(* C10 *)

\* C10 as claimed: the angular velocity of every record is that of the
\* sample, in all three components.
C10_AngularPassedThrough ==
  \A k \in Records :
    odom_pub[k].twist.angular = SampleTwist(odom_src[k].ang).angular

\* C10 as amended: the angular velocity of every record is (0, 0, wz), wz the
\* z component of the sample's angular velocity: x and y are set to zero.
C10_AngularIsYawRateOnly ==
  \A k \in Records :
    /\ odom_src[k].ang \in Samples
    /\ odom_pub[k].twist.angular =
         <<0, 0, SampleTwist(odom_src[k].ang).angular[3]>>

\* A record was published of a sample whose angular velocity has a nonzero x
\* or y component.
C10_Witness ==
  \E k \in Records :
    LET w == SampleTwist(odom_src[k].ang).angular
    IN  (w[1] # 0 \/ w[2] # 0) /\ odom_pub[k].twist.angular = <<0, 0, w[3]>>


----------------------------------------------------------------------------
(* C11: the linear velocity of a record *)

\* The world-frame linear velocity of sample i in the body frame of that same
\* sample: q* (x) v (x) q with q the orientation of sample i, nothing added.
BodyFrameVelocity(i) ==
  transform_vector(Transform(<<0, 0, 0>>, SamplePose(i).orientation),
                   SampleTwist(i).linear, TRUE)

\* C11: when every sample delivered has an orientation of non-zero norm, the
\* linear velocity of every published record is the world-frame linear
\* velocity of a sample rotated by the inverse sandwich with the orientation
\* of that same sample.
C11_LinearVelocityInBodyFrameOfItsSample ==
  (\A i \in Samples : ~ZeroNorm(SamplePose(i).orientation)) =>
    \A k \in Records :
      \E i \in Samples : odom_pub[k].twist.linear = BodyFrameVelocity(i)

----------------------------------------------------------------------------
(* C12: composing the base pose with the transform between the poses *)

\* C12: for the poses pb and pf of any call, the transform g that
\* transform_between_poses(pb, pf) returns satisfies pf = pb * g as rigid
\* transforms.
C12_BasePoseTimesTransformIsFollower ==
  (args # None /\ args.fn = "transform_between_poses" /\ Len(rets) = 1) =>
    np_dot(pose2np(args.pb), pose2np(rets[1])) = pose2np(args.pf)

\* A call whose base pose is away from the origin and half-turned about z and
\* whose follower is elsewhere; the transform returned has the follower's
\* offset seen from the turned base.
C12_Witness ==
  /\ args # None
  /\ args.fn = "transform_between_poses"
  /\ args.pb = Pose(<<1, 0, 0>>, half_turn_z)
  /\ args.pf = Pose(<<0, 1, 0>>, ident_q)
  /\ rets = << Transform(<<1, -1, 0>>, half_turn_z) >>

----------------------------------------------------------------------------
(* C13: transform_vector forward, then inverse *)

Norm2(q) == q[1]*q[1] + q[2]*q[2] + q[3]*q[3] + q[4]*q[4]

RoundTripDone ==
  args # None /\ args.fn = "transform_vector" /\ Len(rets) = 2

\* C13: transform_vector with inverse=False and then with inverse=True and the
\* same quaternion q returns the vector v it started from when q is a unit
\* quaternion; for q of any norm it returns v scaled by the fourth power of
\* the norm, each sandwich scaling by its square.
C13_ForwardThenInverseReturnsVector ==
  RoundTripDone =>
    LET n == Norm2(args.t.rotation)
        v == args.v1
    IN  /\ n = 1 => rets[2] = v
        /\ rets[2] = << n * n * v[1], n * n * v[2], n * n * v[3] >>

\* A round trip with the half turn about x: the forward call turns the vector
\* over, the inverse call turns it back.
C13_Witness ==
  /\ RoundTripDone
  /\ args.t.rotation = <<1, 0, 0, 0>>
  /\ args.v1 = <<1, -1, 1>>
  /\ rets = << <<1, 1, -1>>, <<1, -1, 1>> >>

----------------------------------------------------------------------------
(* C14: the reads that make one record *)

\* C14: every published record is built from one delivery: the pose read for
\* the relative pose (136), the linear velocity (150), the orientation read to
\* rotate it (152) and the angular velocity (154) are all from the same batch.
C14_RecordFromSingleSample ==
  \A k \in Records :
    /\ odom_src[k].lin = odom_src[k].pose
    /\ odom_src[k].ori = odom_src[k].pose
    /\ odom_src[k].ang = odom_src[k].pose

----------------------------------------------------------------------------
(* C15: the twist at the velocity computation *)

\* C15: when the loop is at the velocity computation (150), having seen a
\* stored pose at 129, the stored twist is not None, and so the read at 150
\* never fails.
C15_TwistStoredWhenPoseSeen ==
  /\ pc = "L150" => model_twist # None
  /\ pc # "crashed"

=============================================================================
